---------------------------- MODULE Spec2Model ----------------------------
(***************************************************************************)
(* Preview-token codec and Plaid proxy routes of the worker                *)
(* (worker/api/routes/plaidProxyRoutes.ts, kept as src/unnamed/part_000).  *)
(*                                                                         *)
(* A JavaScript string is a sequence of character codes (a "binary         *)
(* string" holds codes 0..255), a byte array is a sequence of 0..255.      *)
(* A call that may throw yields a record [threw |-> BOOLEAN, val |-> ...]. *)
(***************************************************************************)
EXTENDS Integers, Sequences, FiniteSets, TLC

VARIABLES
    jwtSecret,  \* env.JWT_SECRET (the empty string stands for an unset secret)
    now,        \* Date.now(), in milliseconds
    ticks,      \* number of clock steps taken so far
    issued,     \* the generatePreviewToken calls in effect: [agentId, at, res]
    checked,    \* codec runs: the last validatePreviewToken call made at this
                \* instant, NoCheck after the clock moved or a token was issued
    req,        \* per sandbox: its proxy request in progress or answered last,
                \* with the position of the handler
    plaidAccessToken, \* per agent: the access token its Agent DO stores, or NoToken
    arrivals,   \* the sandboxes with an exchange-token request open, in the
                \* order in which these requests arrived
    currentDevState,  \* the agent's CurrentDevState (launchStateMachine loop)
    pendingConfiguration, \* PhasicState.pendingConfiguration, or NoPending
    cards,      \* the CONFIGURATION_CARD messages broadcast so far, in order
    secretsClient,    \* the providers secretsClient.has() answers true for
    blueprint,  \* detectRequiredServices(this.state.blueprint)
    lastStep,   \* the configuration step taken last, with the state before it
    previewDomain,    \* getPreviewDomain(env); the empty string when none is set
    cors,       \* the request the CORS middleware handled last, and its outcome
    projects,   \* the rows of table projects
    projectSessions,  \* the rows of table project_sessions
    nextId,     \* the ids generateId() has given out so far
    ncalls,     \* the ProjectController calls made so far; new Date() of a
                \* statement is read as the number of the call last made
    calls,      \* per client: its ProjectController call in progress or
                \* answered last, with the position of the handler
    content,    \* useFileEditor: state content, as of the last render
    hasUnsavedChanges,    \* state hasUnsavedChanges, as of the last render
    isSaving,   \* state isSaving, as of the last render
    lastSavedContentRef,  \* lastSavedContentRef.current
    autoSaveTimeoutRef,   \* the pending auto-save timer with the saveFile it
                          \* will call, or NoTimer
    initialContent,       \* option initialContent
    websocket,  \* option websocket is given
    readOnly,   \* option readOnly
    saves,      \* the saveFile calls that sent update_file, in order: what
                \* each captured, its listener and its 10-second timer
    outbox,     \* the update_file messages the server has not answered
    lastFire    \* the auto-save timer callback run last

configVars == << currentDevState, pendingConfiguration, cards, secretsClient,
                 blueprint, lastStep >>

proxyVars == << jwtSecret, issued, checked, req, plaidAccessToken, arrivals >>

corsVars == << previewDomain, cors >>

projectVars == << projects, projectSessions, nextId, ncalls, calls >>

editorVars == << content, hasUnsavedChanges, isSaving, lastSavedContentRef,
                 autoSaveTimeoutRef, initialContent, websocket, readOnly, saves,
                 outbox, lastFire >>

auxVars == << corsVars, projectVars, editorVars >>

vars == << jwtSecret, now, ticks, issued, checked, req, plaidAccessToken,
           arrivals, configVars, auxVars >>

(***************************************************************************)
(* Character codes                                                         *)
(***************************************************************************)
Dot == 46       \* '.'
Pad == 61       \* '='
Plus == 43      \* '+'
Minus == 45     \* '-'
Slash == 47     \* '/'
Digit0 == 48    \* '0'
UpperA == 65    \* 'A'
LowerA == 97    \* 'a'

EmptyStr == << >>

\* ASCII whitespace, skipped by atob (forgiving-base64) and by parseInt.
AsciiWhitespace == {9, 10, 12, 13, 32}

IsDigit(c) == c >= Digit0 /\ c <= Digit0 + 9

\* The base64 alphabet of btoa/atob: value 0..63 -> character code.
B64Char(v) ==
    IF v < 26 THEN UpperA + v
    ELSE IF v < 52 THEN LowerA + (v - 26)
    ELSE IF v < 62 THEN Digit0 + (v - 52)
    ELSE IF v = 62 THEN Plus
    ELSE Slash

IsB64Char(c) ==
    \/ (c >= UpperA /\ c < UpperA + 26)
    \/ (c >= LowerA /\ c < LowerA + 26)
    \/ IsDigit(c)
    \/ c = Plus
    \/ c = Slash

\* Character code -> value 0..63 (c is a character of the alphabet).
B64Value(c) ==
    IF c >= UpperA /\ c < UpperA + 26 THEN c - UpperA
    ELSE IF c >= LowerA /\ c < LowerA + 26 THEN 26 + (c - LowerA)
    ELSE IF IsDigit(c) THEN 52 + (c - Digit0)
    ELSE IF c = Plus THEN 62
    ELSE 63

Threw == [threw |-> TRUE, val |-> EmptyStr]
Returned(v) == [threw |-> FALSE, val |-> v]

(***************************************************************************)
(* btoa: base64 of a binary string; throws InvalidCharacterError when a    *)
(* character code exceeds 255.                                             *)
(***************************************************************************)
RECURSIVE B64Encode(_)
B64Encode(bytes) ==
    IF Len(bytes) = 0 THEN EmptyStr
    ELSE IF Len(bytes) = 1 THEN
        << B64Char(bytes[1] \div 4), B64Char((bytes[1] % 4) * 16), Pad, Pad >>
    ELSE IF Len(bytes) = 2 THEN
        << B64Char(bytes[1] \div 4),
           B64Char(((bytes[1] % 4) * 16) + (bytes[2] \div 16)),
           B64Char((bytes[2] % 16) * 4), Pad >>
    ELSE
        << B64Char(bytes[1] \div 4),
           B64Char(((bytes[1] % 4) * 16) + (bytes[2] \div 16)),
           B64Char(((bytes[2] % 16) * 4) + (bytes[3] \div 64)),
           B64Char(bytes[3] % 64) >>
        \o B64Encode(SubSeq(bytes, 4, Len(bytes)))

btoa(s) ==
    IF \E i \in 1..Len(s) : s[i] > 255 THEN Threw
    ELSE Returned(B64Encode(s))

(***************************************************************************)
(* atob: forgiving-base64 decode (WHATWG): ASCII whitespace is removed,    *)
(* one or two trailing '=' are removed when the length is a multiple of    *)
(* four, a length of 1 mod 4 or a character outside the alphabet throws,   *)
(* left-over bits are discarded.                                           *)
(***************************************************************************)
RECURSIVE RemoveWhitespace(_)
RemoveWhitespace(s) ==
    IF Len(s) = 0 THEN EmptyStr
    ELSE IF s[1] \in AsciiWhitespace THEN RemoveWhitespace(Tail(s))
    ELSE << s[1] >> \o RemoveWhitespace(Tail(s))

StripPadding(s) ==
    IF Len(s) % 4 = 0 /\ Len(s) > 0
    THEN IF s[Len(s)] = Pad /\ s[Len(s) - 1] = Pad THEN SubSeq(s, 1, Len(s) - 2)
         ELSE IF s[Len(s)] = Pad THEN SubSeq(s, 1, Len(s) - 1)
         ELSE s
    ELSE s

RECURSIVE B64Decode(_)
B64Decode(cs) ==
    IF Len(cs) < 2 THEN EmptyStr
    ELSE IF Len(cs) = 2 THEN
        << (B64Value(cs[1]) * 4) + (B64Value(cs[2]) \div 16) >>
    ELSE IF Len(cs) = 3 THEN
        << (B64Value(cs[1]) * 4) + (B64Value(cs[2]) \div 16),
           ((B64Value(cs[2]) % 16) * 16) + (B64Value(cs[3]) \div 4) >>
    ELSE
        << (B64Value(cs[1]) * 4) + (B64Value(cs[2]) \div 16),
           ((B64Value(cs[2]) % 16) * 16) + (B64Value(cs[3]) \div 4),
           ((B64Value(cs[3]) % 4) * 64) + B64Value(cs[4]) >>
        \o B64Decode(SubSeq(cs, 5, Len(cs)))

atob(s) ==
    LET data == StripPadding(RemoveWhitespace(s))
    IN  IF Len(data) % 4 = 1 THEN Threw
        ELSE IF \E i \in 1..Len(data) : ~IsB64Char(data[i]) THEN Threw
        ELSE Returned(B64Decode(data))

(***************************************************************************)
(* String.prototype.split('.')                                             *)
(***************************************************************************)
RECURSIVE SplitFrom(_, _, _)
SplitFrom(s, i, cur) ==
    IF i > Len(s) THEN << cur >>
    ELSE IF s[i] = Dot THEN << cur >> \o SplitFrom(s, i + 1, EmptyStr)
    ELSE SplitFrom(s, i + 1, Append(cur, s[i]))

split(s) == SplitFrom(s, 1, EmptyStr)

(***************************************************************************)
(* Number.prototype.toString() of a non-negative integer (Date.now()).     *)
(***************************************************************************)
RECURSIVE toString(_)
toString(n) ==
    IF n < 10 THEN << Digit0 + n >>
    ELSE Append(toString(n \div 10), Digit0 + (n % 10))

(***************************************************************************)
(* parseInt(s, 10): leading white space is skipped, an optional sign is    *)
(* read, then the longest prefix of decimal digits; NaN when that prefix   *)
(* is empty.  Whatever follows the digits is ignored.                      *)
(***************************************************************************)
RECURSIVE SkipWhitespace(_)
SkipWhitespace(s) ==
    IF Len(s) > 0 /\ s[1] \in (AsciiWhitespace \cup {11}) THEN SkipWhitespace(Tail(s))
    ELSE s

RECURSIVE DigitsValue(_, _, _)
\* <<value, number of digits read>> of the digit prefix of s from index i.
DigitsValue(s, i, acc) ==
    IF i <= Len(s) /\ IsDigit(s[i]) THEN DigitsValue(s, i + 1, (acc * 10) + (s[i] - Digit0))
    ELSE << acc, i >>

NaN == [nan |-> TRUE, val |-> 0]

parseInt(s) ==
    LET t    == SkipWhitespace(s)
        neg  == Len(t) > 0 /\ t[1] = Minus
        body == IF Len(t) > 0 /\ t[1] \in {Plus, Minus} THEN Tail(t) ELSE t
        dv   == DigitsValue(body, 1, 0)
    IN  IF dv[2] = 1 THEN NaN
        ELSE [nan |-> FALSE, val |-> IF neg THEN 0 - dv[1] ELSE dv[1]]

isNaN(x) == x.nan

(***************************************************************************)
(* TextEncoder.encode: UTF-8                                               *)
(***************************************************************************)
RECURSIVE encode(_)
encode(s) ==
    IF Len(s) = 0 THEN EmptyStr
    ELSE (IF s[1] < 128 THEN << s[1] >>
          ELSE IF s[1] < 2048 THEN << 192 + (s[1] \div 64), 128 + (s[1] % 64) >>
          ELSE << 224 + (s[1] \div 4096), 128 + ((s[1] \div 64) % 64), 128 + (s[1] % 64) >>)
         \o encode(Tail(s))


(***************************************************************************)
(* crypto.subtle.sign('HMAC', key, data) with SHA-256.  The MAC is modelled *)
(* as an ideal one: an injective function of (key, data).  Key and data    *)
(* are UTF-8, which never holds the byte 255, so the byte string           *)
(* key 255 data determines both.                                           *)
(***************************************************************************)
MacSeparator == 255

sign(key, data) == key \o << MacSeparator >> \o data

\* const maxAge = 24 * 60 * 60 * 1000
maxAge == 24 * 60 * 60 * 1000

\* Variant: the secret is never found missing.
SecretMissing_Never(secret) == FALSE

\* if (!secret): env.JWT_SECRET is unset or the empty string.
SecretMissing(secret) == secret = EmptyStr

\* Variant: the MAC input lacks the '.' between agent id and timestamp.
generatePreviewToken_NoDot(secret, agentId, clock) ==
    LET timestamp      == toString(clock)
        encodedAgentId == btoa(agentId)
    IN  IF encodedAgentId.threw THEN Threw
        ELSE IF SecretMissing(secret) THEN Threw
        ELSE LET data            == encode(agentId \o timestamp)
                 signature       == sign(encode(secret), data)
                 signatureBase64 == btoa(signature).val
             IN  Returned(encodedAgentId.val \o << Dot >> \o timestamp
                          \o << Dot >> \o signatureBase64)

(***************************************************************************)
(* generatePreviewToken(env, agentId), with Date.now() = clock.            *)
(***************************************************************************)
generatePreviewToken(secret, agentId, clock) ==
    LET timestamp      == toString(clock)
        encodedAgentId == btoa(agentId)
    IN  IF encodedAgentId.threw THEN Threw
        ELSE IF SecretMissing(secret) THEN Threw
        ELSE LET data            == encode(agentId \o << Dot >> \o timestamp)
                 signature       == sign(encode(secret), data)
                 signatureBase64 == btoa(signature).val
             IN  Returned(encodedAgentId.val \o << Dot >> \o timestamp
                          \o << Dot >> \o signatureBase64)

(***************************************************************************)
(* validatePreviewToken(env, token), with Date.now() = clock.  The result  *)
(* is null, an agent id, or (were an exception to escape) a throw.         *)
(***************************************************************************)
Invalid == [threw |-> FALSE, null |-> TRUE, agentId |-> EmptyStr]
Accepted(a) == [threw |-> FALSE, null |-> FALSE, agentId |-> a]
Thrown == [threw |-> TRUE, null |-> TRUE, agentId |-> EmptyStr]

\* Variant: the age test taken with >= instead of >.
TokenExpired_Ge(tokenTime, clock) ==
    isNaN(tokenTime) \/ clock - tokenTime.val >= maxAge

\* if (isNaN(tokenTime) || now - tokenTime > maxAge) return null
TokenExpired(tokenTime, clock) ==
    isNaN(tokenTime) \/ clock - tokenTime.val > maxAge

\* Variant: only the lengths of the two signatures are compared.
SignatureMismatch_Length(signature, expectedSignatureBase64) ==
    Len(signature) # Len(expectedSignatureBase64)

\* if (signature !== expectedSignatureBase64) return null
SignatureMismatch(signature, expectedSignatureBase64) ==
    signature # expectedSignatureBase64

\* Variant: the token is cut at its first and its last '.', whatever lies
\* between them is the timestamp.
TokenParts_Outer(token) ==
    LET dots == {i \in DOMAIN token : token[i] = Dot}
    IN  IF Cardinality(dots) < 2 THEN split(token)
        ELSE LET first == CHOOSE i \in dots : \A j \in dots : i <= j
                 last  == CHOOSE i \in dots : \A j \in dots : j <= i
             IN  << SubSeq(token, 1, first - 1),
                    SubSeq(token, first + 1, last - 1),
                    SubSeq(token, last + 1, Len(token)) >>

\* const parts = token.split('.')
TokenParts(token) == split(token)

\* The body of the try block.
ValidateTry(secret, token, clock) ==
    LET parts == TokenParts(token)
    IN  IF Len(parts) # 3 THEN Invalid
        ELSE LET encodedAgentId == parts[1]
                 timestamp      == parts[2]
                 signature      == parts[3]
                 decoded        == atob(encodedAgentId)
             IN  IF decoded.threw THEN Thrown
                 ELSE LET agentId   == decoded.val
                          tokenTime == parseInt(timestamp)
                      IN  IF TokenExpired(tokenTime, clock) THEN Invalid
                          ELSE IF SecretMissing(secret) THEN Invalid
                          ELSE LET data == encode(agentId \o << Dot >> \o timestamp)
                                   expectedSignature == sign(encode(secret), data)
                                   expectedSignatureBase64 == btoa(expectedSignature).val
                               IN  IF SignatureMismatch(signature, expectedSignatureBase64)
                                   THEN Invalid
                                   ELSE Accepted(agentId)

\* Variant: no catch, the exception escapes.
CatchInvalid_Rethrow(outcome) == outcome

\* catch (error) { return null }
CatchInvalid(outcome) == IF outcome.threw THEN Invalid ELSE outcome

validatePreviewToken(secret, token, clock) ==
    IF token = EmptyStr THEN Invalid
    ELSE CatchInvalid(ValidateTry(secret, token, clock))


(***************************************************************************)
(* Bounds and input sets                                                   *)
(***************************************************************************)
MaxTicks == 2       \* clock steps in one run
MaxSkew == 1        \* how far (ms) Date.now() may step back

\* Date.now() is the wall clock: it advances (by a millisecond, by a day), and
\* it may be set back; issuer and verifier may also read different clocks.
ClockSteps == {1, maxAge} \cup {0 - k : k \in 1..MaxSkew}

AgentA == << 97 >>              \* "a"
AgentB == << 98 >>              \* "b"
AgentDotted == << 97, 46, 49 >> \* "a.1"
AgentLatin1 == << 233 >>        \* U+00E9, one Latin-1 character
AgentGreek == << 955 >>         \* U+03BB, outside Latin-1: btoa throws
CodecAgentIds == {AgentA, AgentDotted, AgentLatin1, AgentGreek}

Secrets == {EmptyStr, << 107 >>}    \* unset, "k"

\* The characters a signature character c is replaced by: another letter
\* ('A', or 'B' for 'A'), and the delimiter.
Replacements(c) == {IF c = 65 THEN 66 ELSE 65, Dot}

NoIssue == [agentId |-> EmptyStr, at |-> 0, res |-> Threw]
NoCheck == [kind |-> "none", token |-> EmptyStr, at |-> 0, res |-> Invalid, of |-> NoIssue]

\* Index of the first character of the signature segment of a three-part token.
SignatureStart(token) == Len(split(token)[1]) + Len(split(token)[2]) + 3

ReplaceChar(s, i, c) == [s EXCEPT ![i] = c]

\* Malformed inputs: the empty string, one, two and four parts, a timestamp
\* that is not a number, tenant segments atob cannot decode.
MalformedTokens ==
    { EmptyStr,
      << 89, 81, 61, 61 >>,                               \* "YQ=="
      << 89, 81, 61, 61, 46, 48 >>,                       \* "YQ==.0"
      << 89, 81, 61, 61, 46, 48, 46, 65, 65, 46, 65 >>,   \* "YQ==.0.AA.A"
      << 89, 81, 61, 61, 46, 120, 46, 65, 65 >>,          \* "YQ==.x.AA"
      << 89, 81, 61, 61, 46, 46, 65, 65 >>,               \* "YQ==..AA"
      << 33, 33, 46, 48, 46, 65, 65 >>,                   \* "!!.0.AA"
      << 89, 46, 48, 46, 65, 65 >>,                       \* "Y.0.AA"
      << 46, 46 >> }                                      \* ".."

\* An issued token with its timestamp or tenant segment made unreadable.
Garbled(token) ==
    LET parts == split(token)
    IN  { parts[1] \o << Dot, 120, Dot >> \o parts[3],            \* timestamp "x"
          << 89, Dot >> \o parts[2] \o << Dot >> \o parts[3],     \* tenant "Y"
          << 33 >> \o token,                                      \* tenant "!..."
          parts[1] \o << Dot >> \o parts[2] \o << 120, Dot >> \o parts[3], \* "<ts>x"
          parts[1] \o << Dot >> \o parts[2] }                     \* signature dropped

\* Keys that are not the worker's secret: no key at all, and "j".
ForeignKeys == {EmptyStr, << 106 >>}

\* A token in the issued format whose MAC was computed by someone else under
\* the key they chose.
ForgedToken(key, agentId, clock) ==
    LET timestamp == toString(clock)
        data      == encode(agentId \o << Dot >> \o timestamp)
    IN  btoa(agentId).val \o << Dot >> \o timestamp \o << Dot >>
            \o btoa(sign(encode(key), data)).val

\* What the holder of an issued token can make of it without the key: the
\* signed text agentId.timestamp cut in two at or next to one of its dots,
\* the first piece presented as the tenant, the second as the timestamp,
\* under the signature of the issued token.
Resplit(t) ==
    LET parts == split(t.res.val)
        data  == t.agentId \o << Dot >> \o parts[2]
        Token(agentId, timestamp) ==
            btoa(agentId).val \o << Dot >> \o timestamp \o << Dot >> \o parts[3]
    IN  UNION { {Token(SubSeq(data, 1, i), SubSeq(data, i + 1, Len(data)))}
                    \cup (IF data[i + 1] = Dot
                          THEN {Token(SubSeq(data, 1, i), SubSeq(data, i + 2, Len(data)))}
                          ELSE {})
                : i \in {j \in 1..(Len(data) - 1) : data[j] = Dot \/ data[j + 1] = Dot} }

\* getPlaidAccessToken() of an agent that stores no access token (null).
NoToken == << >>

ProxyAgents == {AgentA, AgentB}

\* The sandboxes (preview apps) that call the proxy, each one request at a time.
Sandboxes == {"s1", "s2"}

NoResp == [status |-> 0, success |-> "absent", error |-> "", needsConnection |-> FALSE,
           payload |-> {}]

NoHeader == [present |-> FALSE, val |-> EmptyStr]
Header(v) == [present |-> TRUE, val |-> v]

NewRequest(route, header) ==
    [route |-> route, header |-> header, body |-> "unread", pc |-> "received",
     verdict |-> Invalid, agentId |-> EmptyStr,
     exchanged |-> NoToken, accessToken |-> NoToken, credRead |-> FALSE,
     stored |-> FALSE, fetches |-> 0, plaidStatus |-> 0,
     lookups |-> {}, reads |-> {}, writes |-> {}, resp |-> NoResp]

\* A sandbox that has sent nothing yet.
NoRequest == [NewRequest("none", NoHeader) EXCEPT !.pc = "idle"]

NoRequests == [c \in Sandboxes |-> NoRequest]

\* pendingConfiguration is undefined.
NoPending == [requiredServices |-> << >>, configuredServices |-> << >>,
              configCardId |-> << >>]

NoMsg == [cardId |-> << >>, action |-> "none", serviceId |-> "none"]

NoStep == [op |-> "none", state |-> "IDLE", pending |-> NoPending, ncards |-> 0,
           unconfigured |-> << >>, msg |-> NoMsg]

NoCorsHeaders == [allowOrigin |-> NoHeader, allowMethods |-> "", allowHeaders |-> "",
                  maxAge |-> ""]

NoCors == [origin |-> NoHeader, method |-> "none", route |-> "none",
           headers |-> NoCorsHeaders, outcome |-> "none"]

Clients == {"c1", "c2"}

NoProject == [id |-> 0, userId |-> "none", appId |-> "", name |-> "", lastOpenedAt |-> 0]

NoSession == [id |-> 0, projectId |-> 0, activeFile |-> "null"]

NoCall == [op |-> "none", user |-> "none", appId |-> "", name |-> "", projectId |-> 0,
           activeFile |-> "undefined", pc |-> "idle", project |-> NoProject,
           existing |-> NoSession, status |-> 0]

\* The project tables are empty and no ProjectController call is made.
ProjectsAtRest ==
    /\ projects = {}
    /\ projectSessions = {}
    /\ nextId = 0
    /\ ncalls = 0
    /\ calls = [c \in Clients |-> NoCall]

NoTimer == [pending |-> FALSE, content |-> "", hasUnsavedChanges |-> FALSE,
            isSaving |-> FALSE]

NoFire == [ran |-> FALSE, content |-> "", saved |-> "", sent |-> << >>]

\* The hook is not mounted.
EditorAtRest ==
    /\ content = ""
    /\ hasUnsavedChanges = FALSE
    /\ isSaving = FALSE
    /\ lastSavedContentRef = ""
    /\ autoSaveTimeoutRef = NoTimer
    /\ initialContent = ""
    /\ websocket = FALSE
    /\ readOnly = FALSE
    /\ saves = << >>
    /\ outbox = << >>
    /\ lastFire = NoFire

\* The CORS middleware has handled nothing; no preview domain is set.
CorsAtRest ==
    /\ previewDomain = EmptyStr
    /\ cors = NoCors

\* The agent's state machine is not in use: nothing detected, nothing pending.
ConfigAtRest ==
    /\ currentDevState = "IDLE"
    /\ pendingConfiguration = NoPending
    /\ cards = << >>
    /\ secretsClient = {}
    /\ blueprint = << >>
    /\ lastStep = NoStep

(***************************************************************************)
(* Codec runs: tokens are issued and validated on their own.               *)
(***************************************************************************)

CodecInit ==
    /\ jwtSecret \in Secrets
    /\ now = 0
    /\ ticks = 0
    /\ issued = {}
    /\ checked = NoCheck
    /\ req = NoRequests
    /\ arrivals = << >>
    /\ plaidAccessToken = [a \in ProxyAgents |-> NoToken]
    /\ ConfigAtRest
    /\ CorsAtRest
    /\ ProjectsAtRest
    /\ EditorAtRest

ClockStep(d) ==
    /\ ticks < MaxTicks
    /\ now + d >= 0
    /\ now' = now + d
    /\ ticks' = ticks + 1
    /\ checked' = NoCheck
    /\ UNCHANGED << jwtSecret, issued, req, plaidAccessToken, arrivals, configVars, auxVars >>

\* A codec run follows one token: the one issued last.
Generate(a) ==
    /\ issued' = {[agentId |-> a, at |-> now,
                   res |-> generatePreviewToken(jwtSecret, a, now)]}
    /\ checked' = NoCheck
    /\ UNCHANGED << jwtSecret, now, ticks, req, plaidAccessToken, arrivals, configVars, auxVars >>

Check(kind, token, t) ==
    /\ checked' = [kind |-> kind, token |-> token, at |-> now,
                   res |-> validatePreviewToken(jwtSecret, token, now), of |-> t]
    /\ UNCHANGED << jwtSecret, now, ticks, issued, req, plaidAccessToken, arrivals, configVars, auxVars >>

ValidateIssued ==
    \E t \in issued :
        /\ ~t.res.threw
        /\ Check("issued", t.res.val, t)

ValidateTampered ==
    \E t \in issued :
        /\ ~t.res.threw
        /\ \E i \in SignatureStart(t.res.val)..Len(t.res.val) :
              \E c \in Replacements(t.res.val[i]) :
                  Check("tampered", ReplaceChar(t.res.val, i, c), t)

ValidateMalformed ==
    \/ \E m \in MalformedTokens : Check("malformed", m, NoIssue)
    \/ \E t \in issued :
          /\ ~t.res.threw
          /\ \E m \in Garbled(t.res.val) : Check("malformed", m, t)

\* A token dated now and signed under a key that is not the secret.
ValidateForeign ==
    \E a \in CodecAgentIds, key \in ForeignKeys :
        /\ ~btoa(a).threw
        /\ Check("foreign", ForgedToken(key, a, now),
                 [agentId |-> a, at |-> now, res |-> Threw])

\* An issued token re-split by its holder.
ValidateResplit ==
    \E t \in issued :
        /\ ~t.res.threw
        /\ \E token \in Resplit(t) : Check("resplit", token, t)

CodecNext ==
    \/ \E d \in ClockSteps : ClockStep(d)
    \/ \E a \in CodecAgentIds : Generate(a)
    \/ ValidateIssued
    \/ ValidateTampered
    \/ ValidateMalformed
    \/ ValidateForeign
    \/ ValidateResplit

CodecSpec == CodecInit /\ [][CodecNext]_vars


(***************************************************************************)
(* Properties of the codec                                                 *)
(***************************************************************************)
Age == checked.at - checked.of.at

\* C1: with a non-empty secret, validating a token at the instant it was
\* generated returns exactly the agent id it was generated for.
C1_RoundTrip ==
    (checked.kind = "issued" /\ checked.at = checked.of.at /\ jwtSecret # EmptyStr)
        => checked.res = Accepted(checked.of.agentId)

C1_Witness ==
    /\ checked.kind = "issued"
    /\ checked.at = checked.of.at
    /\ checked.at > 0
    /\ checked.res = Accepted(AgentLatin1)

\* C2: a token generated at t0 is accepted at every instant with
\* now - t0 <= 24 h and rejected at every instant with now - t0 > 24 h.
C2_ExpiryBoundary ==
    checked.kind = "issued" =>
        /\ Age <= maxAge => checked.res = Accepted(checked.of.agentId)
        /\ Age > maxAge => checked.res = Invalid

C2_Witness ==
    /\ checked.kind = "issued"
    /\ Age = maxAge
    /\ checked.res = Accepted(checked.of.agentId)

\* C3: a generated token with one character of its signature segment replaced
\* by another is rejected, and whatever token is accepted carries the MAC of
\* its agent id and timestamp under the current secret.
C3_TamperedRejected ==
    /\ checked.kind = "tampered" => checked.res = Invalid
    /\ ~checked.res.null =>
          split(checked.token)[3] =
              btoa(sign(encode(jwtSecret),
                        encode(checked.res.agentId \o << Dot >> \o split(checked.token)[2]))).val

C3_Witness ==
    /\ checked.kind = "tampered"
    /\ Len(split(checked.token)) = 3
    /\ Age = 0
    /\ checked.token[Len(checked.token)] # checked.of.res.val[Len(checked.token)]
    /\ checked.res = Invalid

\* C5: a token whose timestamp is later than the current time is rejected,
\* also when its signature is correct.
C5_FutureRejected ==
    (checked.kind = "issued" /\ checked.of.at > checked.at)
        => checked.res = Invalid

\* C10: validatePreviewToken never throws, and every malformed input gets the
\* one Invalid outcome (null).
C10_NeverThrows ==
    /\ ~checked.res.threw
    /\ checked.kind = "malformed" => checked.res = Invalid

C10_Witness ==
    /\ checked.kind = "malformed"
    /\ Len(split(checked.token)) = 3
    /\ atob(split(checked.token)[1]).threw
    /\ checked.res = Invalid

\* C11: while the signing secret is unset, every generatePreviewToken call
\* fails without a token and validatePreviewToken rejects every token, also
\* one whose MAC was computed under the empty key.
C11_FailClosed ==
    jwtSecret = EmptyStr =>
        /\ \A t \in issued : t.res.threw
        /\ checked.res = Invalid

C11_Witness ==
    /\ jwtSecret = EmptyStr
    /\ \E t \in issued : t.agentId = AgentA /\ t.res.threw
    /\ checked.kind = "foreign"
    /\ checked.token = ForgedToken(EmptyStr, AgentA, now)
    /\ checked.res = Invalid

\* The tenant segment of a presented token, as validation reads it.
ClaimedAgent(token) == atob(split(token)[1]).val

\* C24: whenever validation accepts a token and returns tenant T, the
\* signature of that token is the one generatePreviewToken made for T; a
\* token issued for "a.1" and re-split by its holder to name another tenant
\* ("a", "a.", "a.1.") is rejected.
C24_TenantBinding ==
    /\ ~checked.res.null =>
           /\ ~checked.of.res.threw
           /\ checked.res.agentId = checked.of.agentId
           /\ split(checked.token)[3] = split(checked.of.res.val)[3]
    /\ (checked.kind = "resplit" /\ ClaimedAgent(checked.token) # checked.of.agentId)
           => checked.res = Invalid

C24_Witness ==
    /\ checked.kind = "resplit"
    /\ checked.of.agentId = AgentDotted
    /\ checked.of.at = checked.at
    /\ ClaimedAgent(checked.token) = AgentA
    /\ Len(split(checked.token)) = 4
    /\ checked.res = Invalid


(***************************************************************************)
(* Plaid proxy routes (setupPlaidProxyRoutes).  A request is handled in    *)
(* steps, one per await that reaches outside the handler; requests of      *)
(* different clients interleave between steps.                             *)
(***************************************************************************)
Routes == {"link-token", "exchange-token", "transactions", "accounts", "status"}

\* The request bodies of exchange-token: a public_token, a body that is not
\* JSON, a JSON body without public_token.
Bodies == {"public_token", "not-json", "no-public_token"}

\* c.json({ error }, status)
ErrorOnly(status, error) ==
    [status |-> status, success |-> "absent", error |-> error,
     needsConnection |-> FALSE, payload |-> {}]

\* c.json({ success: false, error }, 500)
Failure(error) ==
    [status |-> 500, success |-> "false", error |-> error,
     needsConnection |-> FALSE, payload |-> {}]

\* A value of a response body that is named here and not followed further:
\* a field of the provider's answer, a boolean, an error text.
Plain(name) == << "plain", name >>

\* c.json({ success: true, ...payload })
Success(payload) ==
    [status |-> 200, success |-> "true", error |-> "",
     needsConnection |-> FALSE, payload |-> payload]

\* c.json({ success: false, error: 'No Plaid account connected', needsConnection: true }, 400)
NeedsConnection ==
    [status |-> 400, success |-> "false", error |-> "No Plaid account connected",
     needsConnection |-> TRUE, payload |-> {}]

\* A handler that lets an exception escape: the framework answers 500.
Unhandled == ErrorOnly(500, "Internal Server Error")

(***************************************************************************)
(* Thrown values and the catch blocks                                      *)
(***************************************************************************)
NoThrow == [threw |-> FALSE, isError |-> FALSE, message |-> ""]
ThrowError(m) == [threw |-> TRUE, isError |-> TRUE, message |-> m]
ThrowOther == [threw |-> TRUE, isError |-> FALSE, message |-> ""]

\* error instanceof Error ? error.message : fallback
CaughtMessage(thrown, fallback) ==
    IF thrown.isError THEN thrown.message ELSE fallback

(***************************************************************************)
(* plaidRequest(env, endpoint, body).  What the provider does is an input: *)
(* it answers 2xx, answers a 4xx or 5xx with or without an error_message,  *)
(* or the fetch fails; the client credentials may be missing in env; or    *)
(* the provider never answers and the awaited fetch never settles.         *)
(***************************************************************************)
ProviderMessages == {"", "msg"}

PlaidOutcomes ==
    {[kind |-> "ok", status |-> 200, error_message |-> ""],
     [kind |-> "network", status |-> 0, error_message |-> ""],
     [kind |-> "unconfigured", status |-> 0, error_message |-> ""],
     [kind |-> "stalled", status |-> 0, error_message |-> ""]}
    \cup [kind : {"http"}, status : {400, 500}, error_message : ProviderMessages]

PlaidApiError(status) ==
    IF status = 400 THEN "Plaid API error: 400" ELSE "Plaid API error: 500"

plaidRequest(o) ==
    IF o.kind = "unconfigured" THEN ThrowError("Plaid credentials not configured")
    ELSE IF o.kind = "network" THEN ThrowError("fetch failed")
    ELSE IF o.kind = "http"
    THEN ThrowError(IF o.error_message # "" THEN o.error_message
                    ELSE PlaidApiError(o.status))
    ELSE NoThrow

\* Whether plaidRequest reached the provider (fetch was called).
Fetched(o) == o.kind # "unconfigured"

\* await fetch(...) with no signal and no timer beside it: when the provider
\* never answers, plaidRequest neither returns nor throws.
Stalls(o) == o.kind = "stalled"

\* What a plaidRequest call leaves on the request: whether fetch was called,
\* and response.status once the provider answered.
PlaidCall(r, o) ==
    [fetches |-> req[r].fetches + (IF Fetched(o) THEN 1 ELSE 0),
     plaidStatus |-> o.status]

(***************************************************************************)
(* The Agent Durable Object behind getAgentStub(env, agentId): it keeps    *)
(* one Plaid access token per agent.  A call on it returns, or throws an   *)
(* Error or some other value.                                              *)
(***************************************************************************)
AgentOutcomes == {NoThrow, ThrowError("msg"), ThrowOther}

\* The access token and item id the provider hands back to the request of
\* sandbox r: they belong to the bank login made for the agent of that request.
AccessTokenOf(r) == << "access", r, req[r].agentId >>
ItemIdOf(r) == << "item", r, req[r].agentId >>

\* The agent an access token was handed out for.
AgentOf(accessToken) == accessToken[3]

\* Variant: the access token is handed to the sandbox with the item id.
ExchangeResult_WithToken(r) == {ItemIdOf(r), req[r].exchanged}

\* { success: true, item_id: response.item_id }: what the success response
\* of exchange-token takes from the provider's answer.
ExchangeResult(r) == {ItemIdOf(r)}

\* The tokens a sandbox may present: the issued ones, an issued one with the
\* first character of its signature replaced, the empty string.
Tampered(token) ==
    LET i == SignatureStart(token)
    IN  ReplaceChar(token, i, IF token[i] = 65 THEN 66 ELSE 65)

PresentedTokens ==
    {t.res.val : t \in {u \in issued : ~u.res.threw}}
    \cup {Tampered(t.res.val) : t \in {u \in issued : ~u.res.threw /\ u.agentId = AgentA}}
    \cup {EmptyStr}

\* The deployment issues each agent's preview token when its sandbox starts.
Init ==
    /\ jwtSecret \in Secrets
    /\ now = 0
    /\ ticks = 0
    /\ issued = {[agentId |-> a, at |-> 0, res |-> generatePreviewToken(jwtSecret, a, 0)]
                    : a \in ProxyAgents}
    /\ checked = NoCheck
    /\ req = NoRequests
    /\ arrivals = << >>
    /\ plaidAccessToken = [a \in ProxyAgents |-> NoToken]
    /\ ConfigAtRest
    /\ CorsAtRest
    /\ ProjectsAtRest
    /\ EditorAtRest

\* A sandbox that has no request open sends one.
Arrive(r) ==
    /\ req[r].pc = "idle"
    /\ \E route \in Routes,
          header \in {NoHeader} \cup {Header(v) : v \in PresentedTokens} :
          /\ req' = [req EXCEPT ![r] = NewRequest(route, header)]
          /\ arrivals' = IF route = "exchange-token"
                         THEN Append(arrivals, r) ELSE arrivals
    /\ UNCHANGED << jwtSecret, now, ticks, issued, checked, plaidAccessToken, configVars, auxVars >>

\* The sandbox has taken the response: its request is over.
Close(r) ==
    /\ req[r].pc = "done"
    /\ req' = [req EXCEPT ![r] = NoRequest]
    /\ arrivals' = SelectSeq(arrivals, LAMBDA c : c # r)
    /\ UNCHANGED << jwtSecret, now, ticks, issued, checked, plaidAccessToken, configVars, auxVars >>

\* More than a day passes: the tokens issued at the start are expired from
\* then on, so one such step shows all there is to see.
Expire ==
    /\ now = 0
    /\ ClockStep(maxAge + 1)

Respond(r, fields, resp) ==
    req' = [req EXCEPT ![r] = [f \in DOMAIN req[r] |->
                IF f = "pc" THEN "done"
                ELSE IF f = "resp" THEN resp
                ELSE IF f \in DOMAIN fields THEN fields[f]
                ELSE req[r][f]]]

Advance(r, pc, fields) ==
    req' = [req EXCEPT ![r] = [f \in DOMAIN req[r] |->
                IF f = "pc" THEN pc
                ELSE IF f \in DOMAIN fields THEN fields[f]
                ELSE req[r][f]]]

NoFields == [x \in {} |-> 0]

\* Variant: the test for a missing header is left out.
MissingToken_Never(header) == FALSE

\* if (!previewToken)
MissingToken(header) == ~header.present \/ header.val = EmptyStr

\* if (!agentId)
Rejected(verdict) == verdict.null \/ verdict.agentId = EmptyStr

(***************************************************************************)
(* The head of every route: 401 without a token, 403 for a rejected one.   *)
(***************************************************************************)
CheckToken(r) ==
    /\ req[r].pc = "received"
    /\ IF MissingToken(req[r].header)
       THEN Respond(r, NoFields, ErrorOnly(401, "Missing preview token"))
       ELSE LET verdict == validatePreviewToken(jwtSecret, req[r].header.val, now)
            IN  IF verdict.threw
                THEN Respond(r, [verdict |-> verdict], Unhandled)
                ELSE IF Rejected(verdict)
                THEN Respond(r, [verdict |-> verdict],
                             ErrorOnly(403, "Invalid preview token"))
                ELSE Advance(r, "authed",
                             [verdict |-> verdict, agentId |-> verdict.agentId])
    /\ UNCHANGED << jwtSecret, now, ticks, issued, checked, plaidAccessToken, arrivals, configVars, auxVars >>


\* Variant: every request is served by the Durable Object of one fixed agent.
StubAgent_Fixed(r) == AgentA

\* getAgentStub(c.env, agentId): the agent whose Durable Object the handler
\* of request r talks to.
StubAgent(r) == req[r].agentId

\* Variant: a failed store is not noticed (the call is not awaited).
StoreFailed_Ignored(thrown) == FALSE

\* await agentStub.storePlaidAccessToken(...) inside try: a throw reaches catch.
StoreFailed(thrown) == thrown.threw

\* Variant: the check for a missing access token is left out.
NotConnected_Never(accessToken) == FALSE

\* if (!accessToken)
NotConnected(accessToken) == accessToken = NoToken

(***************************************************************************)
(* POST /api/proxy/plaid/link-token                                        *)
(***************************************************************************)
LinkToken(r) ==
    /\ req[r].pc = "authed"
    /\ req[r].route = "link-token"
    /\ \E o \in PlaidOutcomes :
          LET thrown == plaidRequest(o)
              count  == PlaidCall(r, o)
          IN  IF Stalls(o) THEN Advance(r, "stalled", count)
              ELSE IF thrown.threw
              THEN Respond(r, count,
                           Failure(CaughtMessage(thrown, "Failed to create link token")))
              ELSE Respond(r, count, Success({Plain("link_token"), Plain("expiration")}))
    /\ UNCHANGED << jwtSecret, now, ticks, issued, checked, plaidAccessToken, arrivals, configVars, auxVars >>

(***************************************************************************)
(* POST /api/proxy/plaid/exchange-token: the body is read, then the public *)
(* token is exchanged with the provider ...                                *)
(***************************************************************************)
ExchangeCall(r) ==
    /\ req[r].pc = "authed"
    /\ req[r].route = "exchange-token"
    /\ \E body \in Bodies :
          IF body = "not-json"
          THEN Respond(r, [body |-> body], ErrorOnly(400, "Invalid JSON body"))
          ELSE IF body = "no-public_token"
          THEN Respond(r, [body |-> body], ErrorOnly(400, "Missing public_token"))
          ELSE \E o \in PlaidOutcomes :
                  LET thrown == plaidRequest(o)
                      count  == [body |-> body] @@ PlaidCall(r, o)
                  IN  IF Stalls(o) THEN Advance(r, "stalled", count)
                      ELSE IF thrown.threw
                      THEN Respond(r, count,
                                   Failure(CaughtMessage(thrown, "Failed to exchange token")))
                      ELSE Advance(r, "exchanged",
                                   [exchanged |-> AccessTokenOf(r)] @@ count)
    /\ UNCHANGED << jwtSecret, now, ticks, issued, checked, plaidAccessToken, arrivals, configVars, auxVars >>

(***************************************************************************)
(* ... and the access token is stored in the agent's Durable Object before *)
(* the success response.  Either getAgentStub or the store may throw.      *)
(***************************************************************************)
ExchangeStore(r) ==
    /\ req[r].pc = "exchanged"
    /\ \E stub \in AgentOutcomes, store \in AgentOutcomes :
          LET a == StubAgent(r)
          IN  IF stub.threw
              THEN /\ Respond(r, [lookups |-> req[r].lookups \cup {a}],
                              Failure(CaughtMessage(stub, "Failed to exchange token")))
                   /\ UNCHANGED plaidAccessToken
              ELSE IF store.threw
              THEN /\ IF StoreFailed(store)
                      THEN Respond(r, [lookups |-> req[r].lookups \cup {a}],
                                   Failure(CaughtMessage(store, "Failed to exchange token")))
                      ELSE Respond(r, [lookups |-> req[r].lookups \cup {a}],
                                   Success(ExchangeResult(r)))
                   /\ UNCHANGED plaidAccessToken
              ELSE /\ a \in DOMAIN plaidAccessToken
                   /\ plaidAccessToken' = [plaidAccessToken EXCEPT ![a] = req[r].exchanged]
                   /\ Respond(r, [lookups |-> req[r].lookups \cup {a},
                                  writes |-> req[r].writes \cup {a},
                                  stored |-> TRUE],
                              Success(ExchangeResult(r)))
    /\ UNCHANGED << jwtSecret, now, ticks, issued, checked, arrivals, configVars, auxVars >>

(***************************************************************************)
(* GET transactions, accounts and status: the agent's access token is read *)
(* from its Durable Object.                                                *)
(***************************************************************************)
ReadCredential(r) ==
    /\ req[r].pc = "authed"
    /\ req[r].route \in {"transactions", "accounts", "status"}
    /\ \E stub \in AgentOutcomes, get \in AgentOutcomes :
          LET a        == StubAgent(r)
              fallback == IF req[r].route = "transactions" THEN "Failed to fetch transactions"
                          ELSE IF req[r].route = "accounts" THEN "Failed to fetch accounts"
                          ELSE "Failed to check status"
          IN  IF stub.threw
              THEN Respond(r, [lookups |-> req[r].lookups \cup {a}],
                           Failure(CaughtMessage(stub, fallback)))
              ELSE IF get.threw
              THEN Respond(r, [lookups |-> req[r].lookups \cup {a}],
                           Failure(CaughtMessage(get, fallback)))
              ELSE /\ a \in DOMAIN plaidAccessToken
                   /\ LET accessToken == plaidAccessToken[a]
                          seen == [lookups |-> req[r].lookups \cup {a},
                                   reads |-> req[r].reads \cup {a},
                                   credRead |-> TRUE,
                                   accessToken |-> accessToken]
                      IN  IF req[r].route = "status"
                          THEN Respond(r, seen,
                                   Success({Plain(IF accessToken # NoToken THEN "connected"
                                                  ELSE "not connected")}))
                          ELSE IF NotConnected(accessToken)
                          THEN Respond(r, seen, NeedsConnection)
                          ELSE Advance(r, "read", seen)
    /\ UNCHANGED << jwtSecret, now, ticks, issued, checked, plaidAccessToken, arrivals, configVars, auxVars >>

\* transactions and accounts: the provider is asked with the access token read.
PlaidFetch(r) ==
    /\ req[r].pc = "read"
    /\ \E o \in PlaidOutcomes :
          LET thrown == plaidRequest(o)
              count  == PlaidCall(r, o)
          IN  IF Stalls(o) THEN Advance(r, "stalled", count)
              ELSE IF thrown.threw
              THEN Respond(r, count,
                      Failure(CaughtMessage(thrown,
                          IF req[r].route = "transactions" THEN "Failed to fetch transactions"
                          ELSE "Failed to fetch accounts")))
              ELSE Respond(r, count,
                      Success(IF req[r].route = "transactions"
                              THEN {Plain("transactions"), Plain("has_more")}
                              ELSE {Plain("accounts")}))
    /\ UNCHANGED << jwtSecret, now, ticks, issued, checked, plaidAccessToken, arrivals, configVars, auxVars >>

Next ==
    \/ Expire
    \/ \E r \in Sandboxes : Arrive(r)
    \/ \E r \in Sandboxes : Close(r)
    \/ \E r \in Sandboxes : CheckToken(r)
    \/ \E r \in Sandboxes : LinkToken(r)
    \/ \E r \in Sandboxes : ExchangeCall(r)
    \/ \E r \in Sandboxes : ExchangeStore(r)
    \/ \E r \in Sandboxes : ReadCredential(r)
    \/ \E r \in Sandboxes : PlaidFetch(r)

Spec == Init /\ [][Next]_vars


(***************************************************************************)
(* Properties of the proxy routes                                          *)
(***************************************************************************)
\* The requests sent so far that are in progress or were answered last.
Requests == {r \in Sandboxes : req[r].pc # "idle"}

\* The header is absent or empty: the request carries no token.
NoTokenSent(r) == req[r].header = NoHeader \/ req[r].header.val = EmptyStr

\* Request r carries the token that was issued for agent a.
CarriesTokenOf(r, a) ==
    \E t \in issued : /\ t.agentId = a
                      /\ ~t.res.threw
                      /\ req[r].header = Header(t.res.val)

Touched(r) == req[r].lookups \cup req[r].reads \cup req[r].writes

\* C4: on every route a request without token is answered 401 and one whose
\* token validatePreviewToken rejects 403, and such a request ends with no
\* agent lookup, no credential read or write and no provider call.
C4_Unauthorized ==
    \A r \in Requests :
        req[r].pc # "received" =>
            /\ NoTokenSent(r) => req[r].resp.status = 401
            /\ (~NoTokenSent(r) /\ req[r].verdict.null) => req[r].resp.status = 403
            /\ req[r].resp.status \in {401, 403} =>
                  /\ req[r].pc = "done"
                  /\ Touched(r) = {}
                  /\ req[r].fetches = 0
                  /\ ~req[r].credRead

C4_Witness ==
    \E r, q \in Requests :
        /\ req[r].route = "status" /\ req[r].resp.status = 401
        /\ req[q].route = "exchange-token" /\ req[q].resp.status = 403

\* C6: a transactions or accounts request whose agent stores no access token
\* is answered 400 with success:false and needsConnection:true, and the
\* provider is not called for it.
C6_NeedsConnection ==
    \A r \in Requests :
        req[r].route \in {"transactions", "accounts"} =>
            /\ (req[r].credRead /\ req[r].accessToken = NoToken) =>
                  /\ req[r].pc = "done"
                  /\ req[r].resp = NeedsConnection
                  /\ req[r].fetches = 0
            /\ req[r].fetches > 0 => req[r].accessToken # NoToken

C6_Witness ==
    \E r \in Requests :
        /\ req[r].route = "accounts"
        /\ req[r].credRead
        /\ req[r].accessToken = NoToken
        /\ req[r].resp.needsConnection

\* C7: a request carrying the token of agent a looks up, reads and writes
\* only a's Durable Object; the access token it reads, and the one an agent
\* stores, was handed out to a request authenticated as that same agent.
C7_TenantIsolation ==
    /\ \A r \in Requests : \A a \in ProxyAgents :
          CarriesTokenOf(r, a) =>
              /\ Touched(r) \subseteq {a}
              /\ req[r].accessToken # NoToken => AgentOf(req[r].accessToken) = a
    /\ \A a \in ProxyAgents :
          plaidAccessToken[a] # NoToken => AgentOf(plaidAccessToken[a]) = a

C7_Witness ==
    \E r, q \in Requests :
        /\ CarriesTokenOf(r, AgentA) /\ CarriesTokenOf(q, AgentB)
        /\ req[q].writes = {AgentB} /\ plaidAccessToken[AgentB] = AccessTokenOf(q)
        /\ req[r].reads = {AgentA} /\ req[r].accessToken = NoToken

\* C8: exchange-token answers success only after the access token handed back
\* by the provider has been stored for the agent of the request.
C8_StoreBeforeSuccess ==
    \A r \in Requests :
        (req[r].route = "exchange-token" /\ req[r].resp.success = "true") =>
            /\ req[r].stored
            /\ req[r].exchanged = AccessTokenOf(r)
            /\ req[r].writes = {req[r].agentId}

C8_Witness ==
    \E r \in Requests :
        /\ req[r].route = "exchange-token"
        /\ req[r].resp.status = 200
        /\ plaidAccessToken[req[r].agentId] = AccessTokenOf(r)

\* The provider call of exchange-token r failed.
ProviderFailed(r) ==
    /\ req[r].route = "exchange-token"
    /\ req[r].pc = "done"
    /\ req[r].fetches = 1
    /\ req[r].exchanged = NoToken

\* The provider call of exchange-token r succeeded, storing its result failed.
PersistFailed(r) ==
    /\ req[r].route = "exchange-token"
    /\ req[r].pc = "done"
    /\ req[r].exchanged # NoToken
    /\ ~req[r].stored

\* C9: a failure to store the credential after a successful exchange is
\* reported with an error that differs from the one reported when the
\* provider call fails, and the provider is called once only.
C9_DistinctPersistError ==
    /\ \A r, q \in Requests :
          (ProviderFailed(r) /\ PersistFailed(q)) => req[r].resp # req[q].resp
    /\ \A r \in Requests : req[r].fetches <= 1


\* The request of sandbox r1 arrived before that of r2, and both are open.
Before(r1, r2) ==
    \E i, j \in DOMAIN arrivals : i < j /\ arrivals[i] = r1 /\ arrivals[j] = r2

\* Two exchange-token requests of one agent.
SameTenantExchanges(r1, r2) ==
    /\ req[r1].route = "exchange-token"
    /\ req[r2].route = "exchange-token"
    /\ ~req[r1].verdict.null
    /\ req[r1].verdict = req[r2].verdict

\* C18: of two exchange-token requests of one agent that are open together,
\* never both are between their provider call and their store, and once
\* both have stored, the agent holds the access token of the request that
\* arrived last.
C18_Serialized ==
    \A r1, r2 \in Sandboxes :
        (Before(r1, r2) /\ SameTenantExchanges(r1, r2))
            => /\ ~(req[r1].pc = "exchanged" /\ req[r2].pc = "exchanged")
               /\ (req[r1].stored /\ req[r2].stored)
                      => plaidAccessToken[req[r2].agentId] = req[r2].exchanged


\* C20: a request whose provider call was answered with a 4xx status is
\* answered with a 4xx status and a body {success: false, error}; a 5xx
\* answer to a failed provider call means the provider answered 5xx or was
\* not reached.
C20_ProviderErrorMapping ==
    \A r \in Requests :
        (req[r].pc = "done" /\ req[r].plaidStatus \in 400..499)
            => /\ req[r].resp.status \in 400..499
               /\ req[r].resp.success = "false"
               /\ req[r].resp.error # ""


\* What the body of the response to r holds beside fixed texts.
Disclosed(r) == req[r].resp.payload \cup {Plain(req[r].resp.error)}

\* The values that must stay on the platform: the signing secret and every
\* access token a provider call returned or an agent stores.
Credentials ==
    {<< "env", "JWT_SECRET", jwtSecret >>}
        \cup (({plaidAccessToken[a] : a \in ProxyAgents}
                 \cup {req[c].exchanged : c \in Sandboxes}
                 \cup {req[c].accessToken : c \in Sandboxes}) \ {NoToken})

OneSandbox == "s1"

FairNext ==
    \/ Expire
    \/ Arrive(OneSandbox)
    \/ Close(OneSandbox)
    \/ CheckToken(OneSandbox)
    \/ LinkToken(OneSandbox)
    \/ ExchangeCall(OneSandbox)
    \/ ExchangeStore(OneSandbox)
    \/ ReadCredential(OneSandbox)
    \/ PlaidFetch(OneSandbox)

\* The steps that follow the token validation.
HandlerSteps ==
    /\ WF_vars(LinkToken(OneSandbox))
    /\ WF_vars(ExchangeCall(OneSandbox))
    /\ WF_vars(ExchangeStore(OneSandbox))
    /\ WF_vars(ReadCredential(OneSandbox))
    /\ WF_vars(PlaidFetch(OneSandbox))

FairSpec == Init /\ [][FairNext]_vars /\ HandlerSteps

\* C19: a request that passed the token validation is answered in the end,
\* also when the provider never answers its call.
C19_BoundedResponse ==
    (req[OneSandbox].pc = "authed") ~> (req[OneSandbox].pc = "done")


(***************************************************************************)
(* The configuration phase of the agent's state machine                    *)
(* (docs/agency-architecture-plan.md, Phase 3).  One agent is followed.    *)
(* Arrays are sequences.  A card's title, message and the display name,    *)
(* type and status of its services are fixed texts and are left out.       *)
(***************************************************************************)
MaxCards == 2       \* configuration cards broadcast in one run

Providers == {"plaid", "stripe"}

\* What detectRequiredServices finds in a blueprint.
Blueprints == { << >>, << "plaid" >>, << "plaid", "stripe" >> }

Range(seq) == {seq[i] : i \in DOMAIN seq}

\* Variant: every detected service counts as unconfigured.
UnconfiguredServices_All(detectedServices, has) == detectedServices

\* for (const service of detectedServices)
\*     if (!await secretsClient.has({ provider: service })) unconfiguredServices.push(service)
UnconfiguredServices(detectedServices, has) ==
    SelectSeq(detectedServices, LAMBDA service : service \notin has)

\* needsConfiguration(): some detected service has no secret.
needsConfiguration(detectedServices, has) ==
    \E i \in DOMAIN detectedServices : detectedServices[i] \notin has

\* const configCardId = `config-${Date.now()}`
ConfigCardId(clock) == << "config", clock >>

\* Variant: the card offers the action continue only.
ConfigurationCard_NoSkip(configCardId, unconfiguredServices) ==
    [cardId |-> configCardId, services |-> unconfiguredServices,
     actions |-> {"continue"}]

\* The CONFIGURATION_CARD message.
ConfigurationCard(configCardId, unconfiguredServices) ==
    [cardId |-> configCardId, services |-> unconfiguredServices,
     actions |-> {"skip", "continue"}]

\* Variant: the required services are recorded as connected already.
NewPending_Connected(unconfiguredServices, configCardId) ==
    [requiredServices |-> unconfiguredServices,
     configuredServices |-> unconfiguredServices,
     configCardId |-> configCardId]

\* pendingConfiguration: { requiredServices: unconfiguredServices,
\*                         configuredServices: [], configCardId }
NewPending(unconfiguredServices, configCardId) ==
    [requiredServices |-> unconfiguredServices,
     configuredServices |-> << >>,
     configCardId |-> configCardId]

Step(op, unconfigured, msg) ==
    [op |-> op, state |-> currentDevState, pending |-> pendingConfiguration,
     ncards |-> Len(cards), unconfigured |-> unconfigured, msg |-> msg]

ProxyAtRest ==
    /\ jwtSecret = << 107 >>
    /\ issued = {}
    /\ checked = NoCheck
    /\ req = NoRequests
    /\ arrivals = << >>
    /\ plaidAccessToken = [a \in ProxyAgents |-> NoToken]

ConfigInit ==
    /\ now = 0
    /\ ticks = 0
    /\ ProxyAtRest
    /\ currentDevState = "IDLE"
    /\ pendingConfiguration = NoPending
    /\ cards = << >>
    /\ secretsClient \in SUBSET Providers
    /\ blueprint \in Blueprints
    /\ lastStep = NoStep
    /\ CorsAtRest
    /\ ProjectsAtRest
    /\ EditorAtRest

\* A generation phase is entered: launchStateMachine runs from PHASE_GENERATING.
\* Nothing keeps it from being entered while a configuration is pending.
Launch ==
    /\ currentDevState = "IDLE"
    /\ currentDevState' = "PHASE_GENERATING"
    /\ lastStep' = Step("launchStateMachine", << >>, NoMsg)
    /\ UNCHANGED << now, ticks, proxyVars, auxVars, pendingConfiguration, cards,
                    secretsClient, blueprint >>

\* case CurrentDevState.PHASE_GENERATING: configuration is needed, or
\* executePhaseGeneration runs and the existing code goes on to implement.
GeneratingCase ==
    /\ currentDevState = "PHASE_GENERATING"
    /\ currentDevState' = IF needsConfiguration(blueprint, secretsClient)
                          THEN "PHASE_CONFIGURING"
                          ELSE "PHASE_IMPLEMENTING"
    /\ lastStep' = Step("needsConfiguration",
                        UnconfiguredServices(blueprint, secretsClient), NoMsg)
    /\ UNCHANGED << now, ticks, proxyVars, auxVars, pendingConfiguration, cards,
                    secretsClient, blueprint >>

\* case CurrentDevState.PHASE_CONFIGURING: executeConfigurationPhase().
ConfiguringCase ==
    /\ currentDevState = "PHASE_CONFIGURING"
    /\ LET unconfiguredServices == UnconfiguredServices(blueprint, secretsClient)
           configCardId == ConfigCardId(now)
       IN  /\ lastStep' = Step("executeConfigurationPhase", unconfiguredServices, NoMsg)
           /\ IF Len(unconfiguredServices) = 0
              THEN /\ currentDevState' = "PHASE_GENERATING"
                   /\ UNCHANGED << pendingConfiguration, cards >>
              ELSE /\ Len(cards) < MaxCards
                   /\ cards' = Append(cards,
                                  ConfigurationCard(configCardId, unconfiguredServices))
                   /\ pendingConfiguration' =
                          NewPending(unconfiguredServices, configCardId)
                   /\ currentDevState' = "IDLE"
    /\ UNCHANGED << now, ticks, proxyVars, auxVars, secretsClient, blueprint >>

\* The generation that was let through runs to its end.
Finish ==
    /\ currentDevState = "PHASE_IMPLEMENTING"
    /\ currentDevState' = "IDLE"
    /\ lastStep' = Step("finish", << >>, NoMsg)
    /\ UNCHANGED << now, ticks, proxyVars, auxVars, pendingConfiguration, cards,
                    secretsClient, blueprint >>

\* The user stores a secret for a provider in the vault.
StoreSecret(provider) ==
    /\ provider \notin secretsClient
    /\ secretsClient' = secretsClient \cup {provider}
    /\ lastStep' = Step("store", << >>, NoMsg)
    /\ UNCHANGED << now, ticks, proxyVars, auxVars, currentDevState, pendingConfiguration,
                    cards, blueprint >>

(***************************************************************************)
(* The agent's handling of a ConfigurationResponseMessage.  The plan       *)
(* declares the message type only; the handling follows the specification  *)
(* of the configuration phase: transitions of one agent are taken one at a *)
(* time, so a response is taken up while the state machine is paused.      *)
(***************************************************************************)
ResponseActions == {"skip", "continue", "service_connected"}

\* A card id no card was ever broadcast with.
UnknownCardId == ConfigCardId(0 - 1)

\* The messages a client may send: for a card it was shown, or for none.
ResponseMessages ==
    { [cardId |-> id, action |-> a, serviceId |-> sid] :
        id \in {cards[i].cardId : i \in DOMAIN cards} \cup {UnknownCardId},
        a \in ResponseActions,
        sid \in Providers }

\* Variant: the card id is not compared.
IsStale_Never(pending, msg) == pending = NoPending

\* The message does not refer to the pending configuration.
IsStale(pending, msg) ==
    pending = NoPending \/ msg.cardId # pending.configCardId

\* configuredProviders contains every required provider.
Covered(pending) ==
    Range(pending.requiredServices) \subseteq Range(pending.configuredServices)

\* A pending configuration that is covered is cleared.
ClearIfCovered(pending) == IF Covered(pending) THEN NoPending ELSE pending

\* service_connected: a required provider is added, once.
Connected(pending, serviceId) ==
    IF serviceId \in Range(pending.requiredServices)
           /\ serviceId \notin Range(pending.configuredServices)
    THEN [pending EXCEPT !.configuredServices = Append(@, serviceId)]
    ELSE pending

\* Variant: skip clears the pending configuration only when it is covered.
Skipped_IfCovered(pending) == ClearIfCovered(pending)

\* skip: the pending configuration is cleared whatever is still unconfigured.
Skipped(pending) == NoPending

\* The pending configuration after a response.
AfterResponse(pending, msg) ==
    IF IsStale(pending, msg) THEN pending
    ELSE IF msg.action = "skip" THEN Skipped(pending)
    ELSE IF msg.action = "continue" THEN ClearIfCovered(pending)
    ELSE ClearIfCovered(Connected(pending, msg.serviceId))

\* A pending configuration was cleared: control returns to the generation
\* pipeline, past the requirements check.
handleConfigurationResponse(msg) ==
    /\ currentDevState = "IDLE"
    /\ pendingConfiguration' = AfterResponse(pendingConfiguration, msg)
    /\ currentDevState' =
           IF pendingConfiguration # NoPending /\ pendingConfiguration' = NoPending
           THEN "PHASE_IMPLEMENTING"
           ELSE currentDevState
    /\ lastStep' = Step("configuration_response", << >>, msg)
    /\ UNCHANGED << now, ticks, proxyVars, auxVars, cards, secretsClient, blueprint >>

ConfigNext ==
    \/ ClockStep(1)
    \/ Launch
    \/ GeneratingCase
    \/ ConfiguringCase
    \/ Finish
    \/ \E provider \in Providers : StoreSecret(provider)
    \/ \E msg \in ResponseMessages : handleConfigurationResponse(msg)

ConfigSpec == ConfigInit /\ [][ConfigNext]_vars

(***************************************************************************)
(* Properties of the configuration phase.  The phase of the specification  *)
(* is read off the agent's state: Idle and AwaitingConfiguration are the   *)
(* paused state machine without and with a pending configuration,          *)
(* CheckingRequirements is the loop before generation runs, Satisfied is   *)
(* the generation running.                                                 *)
(***************************************************************************)
Phase ==
    IF currentDevState = "IDLE"
    THEN IF pendingConfiguration = NoPending THEN "Idle" ELSE "AwaitingConfiguration"
    ELSE IF currentDevState = "PHASE_IMPLEMENTING" THEN "Satisfied"
    ELSE "CheckingRequirements"

\* The phase the last step was taken in.
PhaseBefore ==
    IF lastStep.state = "IDLE"
    THEN IF lastStep.pending = NoPending THEN "Idle" ELSE "AwaitingConfiguration"
    ELSE IF lastStep.state = "PHASE_IMPLEMENTING" THEN "Satisfied"
    ELSE "CheckingRequirements"

Checked == lastStep.op \in {"needsConfiguration", "executeConfigurationPhase"}

AllConfigured == Range(blueprint) \subseteq secretsClient

LastCard == cards[Len(cards)]

\* C12: a requirements check that starts with nothing pending and finds a
\* detected service without a secret leaves the phase AwaitingConfiguration,
\* has broadcast exactly one card, carrying the card id, the unconfigured
\* services and the actions skip and continue, has stored a pending
\* configuration with that card id, and has paused the state machine (IDLE).
C12_GateTrigger ==
    (lastStep.op = "executeConfigurationPhase" /\ ~AllConfigured
         /\ lastStep.pending = NoPending)
        => /\ Phase = "AwaitingConfiguration"
           /\ currentDevState = "IDLE"
           /\ Len(cards) = lastStep.ncards + 1
           /\ LastCard.cardId = pendingConfiguration.configCardId
           /\ Range(LastCard.services) = Range(blueprint) \ secretsClient
           /\ LastCard.actions = {"skip", "continue"}
           /\ pendingConfiguration.requiredServices = LastCard.services

C12_Witness ==
    /\ lastStep.op = "executeConfigurationPhase"
    /\ lastStep.pending = NoPending
    /\ blueprint = << "plaid", "stripe" >>
    /\ secretsClient = {"stripe"}
    /\ Phase = "AwaitingConfiguration"
    /\ LastCard.services = << "plaid" >>

\* C13: a requirements check that finds no detected service, or a secret for
\* every detected service, broadcasts no card and creates no pending
\* configuration, and generation goes on (Satisfied; from
\* executeConfigurationPhase through PHASE_GENERATING).
C13_SilentPass ==
    (Checked /\ AllConfigured)
        => /\ Len(cards) = lastStep.ncards
           /\ pendingConfiguration = lastStep.pending
           /\ lastStep.op = "needsConfiguration" => Phase = "Satisfied"
           /\ lastStep.op = "executeConfigurationPhase"
                  => currentDevState = "PHASE_GENERATING"

C13_Witness ==
    /\ lastStep.op = "needsConfiguration"
    /\ blueprint = << "plaid" >>
    /\ secretsClient = {"plaid"}
    /\ Phase = "Satisfied"
    /\ cards = << >>
    /\ pendingConfiguration = NoPending

\* C14: a requirements check made while a configuration is pending broadcasts
\* no further card and leaves the pending configuration, with its card id,
\* as it was.
C14_ReentrantCheck ==
    (lastStep.op = "executeConfigurationPhase" /\ lastStep.pending # NoPending)
        => /\ Len(cards) = lastStep.ncards
           /\ pendingConfiguration = lastStep.pending

\* C15: a response whose card id is not that of the pending configuration
\* changes nothing: the phase stays AwaitingConfiguration, and the required
\* services, the configured services and the card id stay as they were.
C15_StaleIgnored ==
    (lastStep.op = "configuration_response"
         /\ PhaseBefore = "AwaitingConfiguration"
         /\ lastStep.msg.cardId # lastStep.pending.configCardId)
        => /\ Phase = "AwaitingConfiguration"
           /\ pendingConfiguration = lastStep.pending

C15_Witness ==
    /\ lastStep.op = "configuration_response"
    /\ PhaseBefore = "AwaitingConfiguration"
    /\ Len(cards) = 2
    /\ lastStep.msg.cardId = cards[1].cardId
    /\ lastStep.msg.action = "skip"
    /\ pendingConfiguration.configCardId = cards[2].cardId
    /\ cards[1].cardId # cards[2].cardId
    /\ Phase = "AwaitingConfiguration"

\* C16: the configured services are always among the required services; a
\* service_connected response for the pending card and a required service
\* adds that service; and a pending configuration never stays once every
\* required service is configured: the phase is then Satisfied.
C16_Connect ==
    /\ Range(pendingConfiguration.configuredServices)
           \subseteq Range(pendingConfiguration.requiredServices)
    /\ pendingConfiguration # NoPending => ~Covered(pendingConfiguration)
    /\ (lastStep.op = "configuration_response"
            /\ PhaseBefore = "AwaitingConfiguration"
            /\ lastStep.msg.cardId = lastStep.pending.configCardId
            /\ lastStep.msg.action = "service_connected"
            /\ lastStep.msg.serviceId \in Range(lastStep.pending.requiredServices))
           => IF Range(lastStep.pending.requiredServices) \subseteq
                     Range(lastStep.pending.configuredServices) \cup {lastStep.msg.serviceId}
              THEN Phase = "Satisfied" /\ pendingConfiguration = NoPending
              ELSE /\ Phase = "AwaitingConfiguration"
                   /\ Range(pendingConfiguration.configuredServices) =
                          Range(lastStep.pending.configuredServices)
                              \cup {lastStep.msg.serviceId}
                   /\ pendingConfiguration.requiredServices =
                          lastStep.pending.requiredServices
                   /\ pendingConfiguration.configCardId =
                          lastStep.pending.configCardId

C16_Witness ==
    /\ lastStep.op = "configuration_response"
    /\ lastStep.pending.requiredServices = << "plaid" >>
    /\ lastStep.pending.configuredServices = << >>
    /\ lastStep.msg.cardId = lastStep.pending.configCardId
    /\ lastStep.msg.action = "service_connected"
    /\ lastStep.msg.serviceId = "plaid"
    /\ Phase = "Satisfied"
    /\ pendingConfiguration = NoPending

\* C17: a skip response for the pending card, taken while
\* AwaitingConfiguration, clears the pending configuration and makes the
\* phase Satisfied, whatever is still unconfigured.
C17_Skip ==
    (lastStep.op = "configuration_response"
         /\ PhaseBefore = "AwaitingConfiguration"
         /\ lastStep.msg.cardId = lastStep.pending.configCardId
         /\ lastStep.msg.action = "skip")
        => /\ Phase = "Satisfied"
           /\ pendingConfiguration = NoPending

C17_Witness ==
    /\ lastStep.op = "configuration_response"
    /\ lastStep.msg.action = "skip"
    /\ lastStep.msg.cardId = lastStep.pending.configCardId
    /\ lastStep.pending.requiredServices = << "plaid", "stripe" >>
    /\ lastStep.pending.configuredServices = << "stripe" >>
    /\ secretsClient = {}
    /\ Phase = "Satisfied"
    /\ pendingConfiguration = NoPending


(***************************************************************************)
(* The CORS middleware of the proxy routes (app.use('/api/proxy/plaid/*')).*)
(* getPreviewDomain(env) is an input.                                      *)
(***************************************************************************)
PreviewDomain == << 112, 46, 100, 101, 118 >>   \* "p.dev"

PreviewDomains == {EmptyStr, PreviewDomain}

\* The Origin headers sent: of a sandbox, of a sandbox below a sandbox, of
\* the preview domain itself, of a host that ends with the same letters, of
\* a host that starts with the preview domain, of a sandbox on another port,
\* the opaque origin, the empty header, no header.
Origins ==
    { Header(<< 104, 116, 116, 112, 115, 58, 47, 47, 115, 46, 112, 46,
                100, 101, 118 >>),                  \* "https://s.p.dev"
      Header(<< 104, 116, 116, 112, 115, 58, 47, 47, 97, 46, 115, 46,
                112, 46, 100, 101, 118 >>),         \* "https://a.s.p.dev"
      Header(<< 104, 116, 116, 112, 115, 58, 47, 47, 112, 46, 100, 101,
                118 >>),                            \* "https://p.dev"
      Header(<< 104, 116, 116, 112, 115, 58, 47, 47, 101, 118, 105, 108,
                112, 46, 100, 101, 118 >>),         \* "https://evilp.dev"
      Header(<< 104, 116, 116, 112, 115, 58, 47, 47, 112, 46, 100, 101,
                118, 46, 101, 118, 105, 108, 46, 105, 111 >>),
                                                    \* "https://p.dev.evil.io"
      Header(<< 104, 116, 116, 112, 115, 58, 47, 47, 115, 46, 112, 46,
                100, 101, 118, 58, 56, 52, 52, 51 >>),
                                                    \* "https://s.p.dev:8443"
      Header(<< 110, 117, 108, 108 >>),             \* "null"
      Header(EmptyStr),
      NoHeader }

Methods == {"GET", "POST", "OPTIONS"}

\* String.prototype.endsWith
endsWith(s, suffix) ==
    /\ Len(s) >= Len(suffix)
    /\ SubSeq(s, Len(s) - Len(suffix) + 1, Len(s)) = suffix

\* Variant: the '.' before the preview domain is not asked for.
OriginAllowed_NoDot(origin, domain) ==
    /\ origin.present
    /\ origin.val # EmptyStr
    /\ domain # EmptyStr
    /\ endsWith(origin.val, domain)

\* origin && previewDomain && origin.endsWith(`.${previewDomain}`)
OriginAllowed(origin, domain) ==
    /\ origin.present
    /\ origin.val # EmptyStr
    /\ domain # EmptyStr
    /\ endsWith(origin.val, << Dot >> \o domain)

\* The four headers of a grant.
CorsHeaders(origin) ==
    [allowOrigin |-> Header(origin.val), allowMethods |-> "GET, POST, OPTIONS",
     allowHeaders |-> "Content-Type, X-Preview-Token", maxAge |-> "86400"]

\* One request passes the middleware: the headers are set or not, a
\* preflight is answered 204, any other request goes on to its route.
CorsMiddleware(origin, method, route) ==
    /\ cors' = [origin |-> origin, method |-> method, route |-> route,
                headers |-> IF OriginAllowed(origin, previewDomain)
                            THEN CorsHeaders(origin) ELSE NoCorsHeaders,
                outcome |-> IF method = "OPTIONS" THEN "204" ELSE "next"]
    /\ UNCHANGED << now, ticks, proxyVars, configVars, previewDomain, projectVars,
                    editorVars >>

CorsInit ==
    /\ now = 0
    /\ ticks = 0
    /\ ProxyAtRest
    /\ ConfigAtRest
    /\ previewDomain \in PreviewDomains
    /\ cors = NoCors
    /\ ProjectsAtRest
    /\ EditorAtRest

CorsNext ==
    \E origin \in Origins, method \in Methods, route \in Routes :
        CorsMiddleware(origin, method, route)

CorsSpec == CorsInit /\ [][CorsNext]_vars

\* The host of a serialized origin: what follows "://", up to a port.
HostOf(origin) ==
    LET start == CHOOSE i \in 1..(Len(origin) + 1) :
                     /\ i = Len(origin) + 1
                           \/ (i + 2 <= Len(origin)
                                 /\ SubSeq(origin, i, i + 2) = << 58, 47, 47 >>)
                     /\ \A j \in 1..(i - 1) :
                           ~(j + 2 <= Len(origin)
                               /\ SubSeq(origin, j, j + 2) = << 58, 47, 47 >>)
        rest  == IF start > Len(origin) THEN EmptyStr
                 ELSE SubSeq(origin, start + 3, Len(origin))
        colon == CHOOSE i \in 1..(Len(rest) + 1) :
                     /\ i = Len(rest) + 1 \/ rest[i] = 58
                     /\ \A j \in 1..(i - 1) : rest[j] # 58
    IN  SubSeq(rest, 1, colon - 1)

\* The origin names a host below the domain: the labels of the domain, with
\* at least one label before them.
IsSubdomainOrigin(origin, domain) ==
    /\ origin.present
    /\ domain # EmptyStr
    /\ LET host   == split(HostOf(origin.val))
           labels == split(domain)
       IN  /\ Len(host) > Len(labels)
           /\ SubSeq(host, Len(host) - Len(labels) + 1, Len(host)) = labels
           /\ \A i \in DOMAIN host : host[i] # EmptyStr

\* C22: the access-control headers are set only for an Origin below the
\* preview domain, and then Access-Control-Allow-Origin is that origin; for
\* any other origin, a missing Origin or no preview domain, none is set.
C22_CorsGrant ==
    cors.outcome # "none" =>
        IF cors.headers = NoCorsHeaders
        THEN TRUE
        ELSE /\ IsSubdomainOrigin(cors.origin, previewDomain)
             /\ cors.headers = CorsHeaders(cors.origin)

C22_Witness ==
    /\ previewDomain = PreviewDomain
    /\ cors.method = "POST"
    /\ cors.route = "exchange-token"
    /\ cors.outcome = "next"
    /\ HostOf(cors.origin.val) = << 97, 46, 115, 46, 112, 46, 100, 101, 118 >>
    /\ cors.headers.allowOrigin = cors.origin


(***************************************************************************)
(* Projects (ProjectController over ProjectService).  A call is handled in *)
(* steps, one per statement sent to the database; calls of different       *)
(* clients interleave between steps.  Tables projects and project_sessions *)
(* have a primary key on id and no other uniqueness constraint; a session  *)
(* references its project ON DELETE cascade.                               *)
(***************************************************************************)
MaxIds == 4     \* ids generateId() gives out in one run
MaxCalls == 3   \* calls made in one run

Users == {"u1", "u2"}

\* Bodies of POST /api/projects: complete, and without appId.
CreateBodies == {[appId |-> "a1", name |-> "n1"], [appId |-> "", name |-> "n1"]}

OwnerOps == {"getProject", "updateProject", "deleteProject", "getProjectSession",
             "saveProjectSession"}

\* The :id of a call: a project's id, or an id not given out yet.
TargetIds == {q.id : q \in projects} \cup {nextId + 1}

ProjectCalls ==
    { [NoCall EXCEPT !.op = "createProject", !.user = u, !.appId = b.appId,
                     !.name = b.name, !.pc = "start"]
        : u \in Users, b \in CreateBodies }
    \cup
    { [NoCall EXCEPT !.op = o, !.user = u, !.projectId = id, !.pc = "start",
                     !.name = IF o = "updateProject" THEN "n2" ELSE "",
                     !.activeFile = IF o = "saveProjectSession" THEN "f1" ELSE "undefined"]
        : o \in OwnerOps, u \in Users, id \in TargetIds }

\* Variant: the row is looked up by its id alone.
Owned_AnyUser(projectId, userId) == {q \in projects : q.id = projectId}

\* where(and(eq(projects.id, projectId), eq(projects.userId, userId)))
Owned(projectId, userId) ==
    {q \in projects : q.id = projectId /\ q.userId = userId}

\* getProjectByAppId: where(and(eq(projects.appId, appId), eq(projects.userId, userId)))
ByApp(appId, userId) ==
    {q \in projects : q.appId = appId /\ q.userId = userId}

\* getProjectSession: where(eq(projectSessions.projectId, projectId)); the
\* first row the database returns, or null.
SessionRows(projectId) ==
    LET rows == {r \in projectSessions : r.projectId = projectId}
    IN  IF rows = {} THEN {NoSession} ELSE rows

\* The call of client c is answered; what is kept of it is the call made
\* and the status of the answer.
Answer(c, status) ==
    [calls EXCEPT ![c] = [NoCall EXCEPT !.op = calls[c].op, !.user = calls[c].user,
                                        !.projectId = calls[c].projectId,
                                        !.pc = "done", !.status = status]]

ProjectFrame ==
    UNCHANGED << now, ticks, proxyVars, configVars, corsVars, editorVars, ncalls >>

ProjectInit ==
    /\ now = 0
    /\ ticks = 0
    /\ ProxyAtRest
    /\ ConfigAtRest
    /\ CorsAtRest
    /\ ProjectsAtRest
    /\ EditorAtRest

\* A client sends a call once its previous one is answered.
Call(c) ==
    /\ calls[c].pc \in {"idle", "done"}
    /\ ncalls < MaxCalls
    /\ ncalls' = ncalls + 1
    /\ \E r \in ProjectCalls : calls' = [calls EXCEPT ![c] = r]
    /\ UNCHANGED << projects, projectSessions, nextId >>
    /\ UNCHANGED << now, ticks, proxyVars, configVars, corsVars, editorVars >>

\* createProject: the body is tested, then getProjectByAppId looks for a
\* project of this user and app.
CreateCheck(c) ==
    /\ calls[c].pc = "start"
    /\ calls[c].op = "createProject"
    /\ calls' = IF calls[c].appId = "" \/ calls[c].name = "" THEN Answer(c, 400)
                ELSE IF ByApp(calls[c].appId, calls[c].user) # {} THEN Answer(c, 409)
                ELSE [calls EXCEPT ![c].pc = "insertProject"]
    /\ UNCHANGED << projects, projectSessions, nextId >>
    /\ ProjectFrame

\* ProjectService.createProject, first statement: insert(projects).
CreateInsertProject(c) ==
    /\ calls[c].pc = "insertProject"
    /\ nextId < MaxIds
    /\ LET project == [id |-> nextId + 1, userId |-> calls[c].user,
                       appId |-> calls[c].appId, name |-> calls[c].name,
                       lastOpenedAt |-> ncalls]
       IN  /\ projects' = projects \cup {project}
           /\ calls' = [calls EXCEPT ![c].pc = "insertSession", ![c].project = project]
    /\ nextId' = nextId + 1
    /\ UNCHANGED projectSessions
    /\ ProjectFrame

\* ProjectService.createProject, second statement: insert(projectSessions).
\* The insert fails on the foreign key when the project is gone.
CreateInsertSession(c) ==
    /\ calls[c].pc = "insertSession"
    /\ nextId < MaxIds
    /\ nextId' = nextId + 1
    /\ IF \E q \in projects : q.id = calls[c].project.id
       THEN /\ projectSessions' = projectSessions \cup
                   {[id |-> nextId + 1, projectId |-> calls[c].project.id,
                     activeFile |-> "null"]}
            /\ calls' = Answer(c, 201)
       ELSE /\ UNCHANGED projectSessions
            /\ calls' = Answer(c, 500)
    /\ UNCHANGED projects
    /\ ProjectFrame

\* getProject: getProjectById.
GetLookup(c) ==
    /\ calls[c].pc = "start"
    /\ calls[c].op = "getProject"
    /\ LET rows == Owned(calls[c].projectId, calls[c].user)
       IN  calls' = IF rows = {} THEN Answer(c, 404)
                    ELSE [calls EXCEPT ![c].pc = "touch",
                                       ![c].project = CHOOSE q \in rows : TRUE]
    /\ UNCHANGED << projects, projectSessions, nextId >>
    /\ ProjectFrame

\* getProject: touchProject.
GetTouch(c) ==
    /\ calls[c].pc = "touch"
    /\ projects' = {IF q \in Owned(calls[c].projectId, calls[c].user)
                    THEN [q EXCEPT !.lastOpenedAt = ncalls] ELSE q : q \in projects}
    /\ calls' = [calls EXCEPT ![c].pc = "session"]
    /\ UNCHANGED << projectSessions, nextId >>
    /\ ProjectFrame

\* getProject: getProjectSession; the row read goes into the answer.
GetSession(c) ==
    /\ calls[c].pc = "session"
    /\ calls' = Answer(c, 200)
    /\ UNCHANGED << projects, projectSessions, nextId >>
    /\ ProjectFrame

\* updateProject: one update statement.
UpdateProject(c) ==
    /\ calls[c].pc = "start"
    /\ calls[c].op = "updateProject"
    /\ LET rows == Owned(calls[c].projectId, calls[c].user)
       IN  /\ projects' = {IF q \in rows THEN [q EXCEPT !.name = calls[c].name] ELSE q
                            : q \in projects}
           /\ calls' = Answer(c, IF rows = {} THEN 404 ELSE 200)
    /\ UNCHANGED << projectSessions, nextId >>
    /\ ProjectFrame

\* deleteProject: one delete statement; the sessions of the project go with it.
DeleteProject(c) ==
    /\ calls[c].pc = "start"
    /\ calls[c].op = "deleteProject"
    /\ LET rows == Owned(calls[c].projectId, calls[c].user)
       IN  /\ projects' = projects \ rows
           /\ projectSessions' =
                  {r \in projectSessions : \A q \in rows : r.projectId # q.id}
           /\ calls' = Answer(c, IF rows = {} THEN 404 ELSE 200)
    /\ UNCHANGED nextId
    /\ ProjectFrame

\* getProjectSession, saveProjectSession: "Verify user owns the project".
SessionVerify(c) ==
    /\ calls[c].pc = "start"
    /\ calls[c].op \in {"getProjectSession", "saveProjectSession"}
    /\ calls' = IF Owned(calls[c].projectId, calls[c].user) = {} THEN Answer(c, 404)
                ELSE [calls EXCEPT ![c].pc = "read"]
    /\ UNCHANGED << projects, projectSessions, nextId >>
    /\ ProjectFrame

\* ProjectService.getProjectSession, for the answer or as the existence
\* test of saveProjectSession.
SessionRead(c) ==
    /\ calls[c].pc = "read"
    /\ \E r \in SessionRows(calls[c].projectId) :
          calls' = IF calls[c].op = "getProjectSession"
                   THEN Answer(c, 200)
                   ELSE [calls EXCEPT ![c].pc = "write", ![c].existing = r]
    /\ UNCHANGED << projects, projectSessions, nextId >>
    /\ ProjectFrame

\* saveProjectSession: update of the row read before.
SaveUpdate(c) ==
    /\ calls[c].pc = "write"
    /\ calls[c].existing # NoSession
    /\ projectSessions' =
          {IF r.id = calls[c].existing.id
           THEN [r EXCEPT !.activeFile = IF calls[c].activeFile # "undefined"
                                         THEN calls[c].activeFile
                                         ELSE calls[c].existing.activeFile]
           ELSE r : r \in projectSessions}
    /\ calls' = Answer(c, 200)
    /\ UNCHANGED << projects, nextId >>
    /\ ProjectFrame

\* saveProjectSession: no row was read, a new one is inserted.  The insert
\* fails on the foreign key when the project is gone.
SaveInsert(c) ==
    /\ calls[c].pc = "write"
    /\ calls[c].existing = NoSession
    /\ nextId < MaxIds
    /\ nextId' = nextId + 1
    /\ IF \E q \in projects : q.id = calls[c].projectId
       THEN /\ projectSessions' = projectSessions \cup
                   {[id |-> nextId + 1, projectId |-> calls[c].projectId,
                     activeFile |-> IF calls[c].activeFile # "undefined"
                                    THEN calls[c].activeFile ELSE "null"]}
            /\ calls' = Answer(c, 200)
       ELSE /\ UNCHANGED projectSessions
            /\ calls' = Answer(c, 500)
    /\ UNCHANGED projects
    /\ ProjectFrame

ProjectNext ==
    \E c \in Clients :
          \/ Call(c)
          \/ CreateCheck(c)
          \/ CreateInsertProject(c)
          \/ CreateInsertSession(c)
          \/ GetLookup(c)
          \/ GetTouch(c)
          \/ GetSession(c)
          \/ UpdateProject(c)
          \/ DeleteProject(c)
          \/ SessionVerify(c)
          \/ SessionRead(c)
          \/ SaveUpdate(c)
          \/ SaveInsert(c)

ProjectSpec == ProjectInit /\ [][ProjectNext]_vars


(***************************************************************************)
(* Properties of the project tables                                        *)
(***************************************************************************)
\* C25: whatever calls ran and however they interleaved, there is at most
\* one project for a user and an app.
C25_ProjectUnique ==
    \A q1, q2 \in projects :
        (q1.userId = q2.userId /\ q1.appId = q2.appId) => q1 = q2

\* The call of client c is in progress on a project of another user.
OnForeignProject(c) ==
    /\ calls[c].pc \notin {"idle", "done"}
    /\ calls[c].op \in OwnerOps
    /\ \E q \in projects : q.id = calls[c].projectId /\ q.userId # calls[c].user

Quiet == \A c \in Clients : calls[c].pc \in {"idle", "done"}

\* C27: once the calls are answered, every project has exactly one session
\* row.
C27_OneSession ==
    Quiet => \A q \in projects :
                 Cardinality({r \in projectSessions : r.projectId = q.id}) = 1


(***************************************************************************)
(* The file editor hook (useFileEditor).  The state variables hold the     *)
(* values of the last render; a callback works on the values of the render *)
(* that created it (every value saveFile reads is among its dependencies,  *)
(* and saveFile is among those of handleChange, so the callbacks of a      *)
(* render hold the values of that render).  A timer fires at some moment   *)
(* after it was set.                                                       *)
(***************************************************************************)
MaxSaves == 2   \* update_file messages sent in one run

Contents == {"a", "b"}

\* What the saveFile of the current render reads from its closure.
Closure == [content |-> content, hasUnsavedChanges |-> hasUnsavedChanges,
            isSaving |-> isSaving]

\* setTimeout(() => saveFile(), AUTO_SAVE_DELAY), saveFile being the one
\* handleChange was created with.
Timer(closure) ==
    [pending |-> TRUE, content |-> closure.content,
     hasUnsavedChanges |-> closure.hasUnsavedChanges, isSaving |-> closure.isSaving]

\* saveFile goes on after: if (!websocket || readOnly || !hasUnsavedChanges) return
Sends(closure) == websocket /\ ~readOnly /\ closure.hasUnsavedChanges

\* The save a saveFile call starts: the content sent, which its listener
\* will take as saved, the isSaving its timeout callback will test, the
\* listener and the 10-second timer.
NewSave(closure) ==
    [content |-> closure.content, isSaving |-> closure.isSaving, listening |-> TRUE,
     timer |-> TRUE, outcome |-> "none", timeoutReported |-> FALSE]

EditorFrame == UNCHANGED << now, ticks, proxyVars, configVars, corsVars, projectVars >>

EditorInit ==
    /\ now = 0
    /\ ticks = 0
    /\ ProxyAtRest
    /\ ConfigAtRest
    /\ CorsAtRest
    /\ ProjectsAtRest
    /\ initialContent = "a"
    /\ content = initialContent
    /\ lastSavedContentRef = initialContent
    /\ hasUnsavedChanges = FALSE
    /\ isSaving = FALSE
    /\ autoSaveTimeoutRef = NoTimer
    /\ websocket \in BOOLEAN
    /\ readOnly \in BOOLEAN
    /\ saves = << >>
    /\ outbox = << >>
    /\ lastFire = NoFire

\* handleChange(newContent), of the current render.
handleChange(newContent) ==
    /\ ~readOnly
    /\ content' = newContent
    /\ LET hasChanges == newContent # lastSavedContentRef
       IN  /\ hasUnsavedChanges' = hasChanges
           /\ autoSaveTimeoutRef' = IF hasChanges /\ websocket THEN Timer(Closure)
                                    ELSE NoTimer
    /\ UNCHANGED << isSaving, lastSavedContentRef, initialContent, websocket, readOnly,
                    saves, outbox, lastFire >>
    /\ EditorFrame

\* The body of saveFile past its early return.
StartSave(closure) ==
    /\ Len(saves) < MaxSaves
    /\ isSaving' = TRUE
    /\ outbox' = Append(outbox, closure.content)
    /\ saves' = Append(saves, NewSave(closure))

\* The auto-save timer fires and calls its saveFile.
AutoSave ==
    /\ autoSaveTimeoutRef.pending
    /\ autoSaveTimeoutRef' = NoTimer
    /\ IF Sends(autoSaveTimeoutRef)
       THEN /\ StartSave(autoSaveTimeoutRef)
            /\ lastFire' = [ran |-> TRUE, content |-> content,
                            saved |-> lastSavedContentRef,
                            sent |-> << autoSaveTimeoutRef.content >>]
       ELSE /\ UNCHANGED << isSaving, outbox, saves >>
            /\ lastFire' = [ran |-> TRUE, content |-> content,
                            saved |-> lastSavedContentRef, sent |-> << >>]
    /\ UNCHANGED << content, hasUnsavedChanges, lastSavedContentRef, initialContent,
                    websocket, readOnly >>
    /\ EditorFrame

\* saveFile() of the current render, called by the user.
saveFile ==
    /\ Sends(Closure)
    /\ StartSave(Closure)
    /\ UNCHANGED << content, hasUnsavedChanges, lastSavedContentRef,
                    autoSaveTimeoutRef, initialContent, websocket, readOnly, lastFire >>
    /\ EditorFrame

Listening == {i \in DOMAIN saves : saves[i].listening}

\* The server answers the oldest update_file with file_updated or
\* file_update_error for this file; every listener still added handles the
\* message, in the order in which they were added.
ServerMessage(type) ==
    /\ outbox # << >>
    /\ outbox' = Tail(outbox)
    /\ saves' = [i \in DOMAIN saves |->
                    IF saves[i].listening
                    THEN [saves[i] EXCEPT !.listening = FALSE, !.outcome = type]
                    ELSE saves[i]]
    /\ isSaving' = IF Listening = {} THEN isSaving ELSE FALSE
    /\ IF Listening # {} /\ type = "file_updated"
       THEN /\ lastSavedContentRef' =
                   saves[CHOOSE i \in Listening : \A j \in Listening : j <= i].content
            /\ hasUnsavedChanges' = FALSE
       ELSE UNCHANGED << lastSavedContentRef, hasUnsavedChanges >>
    /\ UNCHANGED << content, autoSaveTimeoutRef, initialContent, websocket, readOnly,
                    lastFire >>
    /\ EditorFrame

\* The server answers the oldest update_file with nothing.
ServerSilent ==
    /\ outbox # << >>
    /\ outbox' = Tail(outbox)
    /\ UNCHANGED << content, hasUnsavedChanges, isSaving, lastSavedContentRef,
                    autoSaveTimeoutRef, initialContent, websocket, readOnly, saves,
                    lastFire >>
    /\ EditorFrame

\* if (isSaving), in the callback of setTimeout(..., 10000): the isSaving
\* of the render whose saveFile was called.
TimeoutActs(save) == save.isSaving

\* The 10-second timer of save i fires.
SaveTimeout(i) ==
    /\ saves[i].timer
    /\ IF TimeoutActs(saves[i])
       THEN /\ saves' = [saves EXCEPT ![i].timer = FALSE, ![i].listening = FALSE,
                                      ![i].timeoutReported = TRUE]
            /\ isSaving' = FALSE
       ELSE /\ saves' = [saves EXCEPT ![i].timer = FALSE]
            /\ UNCHANGED isSaving
    /\ UNCHANGED << content, hasUnsavedChanges, lastSavedContentRef,
                    autoSaveTimeoutRef, initialContent, websocket, readOnly, outbox,
                    lastFire >>
    /\ EditorFrame

\* reset()
reset ==
    /\ content' = initialContent
    /\ lastSavedContentRef' = initialContent
    /\ hasUnsavedChanges' = FALSE
    /\ autoSaveTimeoutRef' = NoTimer
    /\ UNCHANGED << isSaving, initialContent, websocket, readOnly, saves, outbox,
                    lastFire >>
    /\ EditorFrame

\* The option initialContent changes and the effect on it runs.
InitialContentEffect(newInitial) ==
    /\ newInitial # initialContent
    /\ initialContent' = newInitial
    /\ IF newInitial # lastSavedContentRef
       THEN /\ content' = newInitial
            /\ lastSavedContentRef' = newInitial
            /\ hasUnsavedChanges' = FALSE
       ELSE UNCHANGED << content, lastSavedContentRef, hasUnsavedChanges >>
    /\ UNCHANGED << isSaving, autoSaveTimeoutRef, websocket, readOnly, saves, outbox,
                    lastFire >>
    /\ EditorFrame

EditorNext ==
    \/ \E newContent \in Contents : handleChange(newContent)
    \/ AutoSave
    \/ saveFile
    \/ \E type \in {"file_updated", "file_update_error"} : ServerMessage(type)
    \/ ServerSilent
    \/ \E i \in DOMAIN saves : SaveTimeout(i)
    \/ reset
    \/ \E newInitial \in Contents : InitialContentEffect(newInitial)

EditorSpec == EditorInit /\ [][EditorNext]_vars


(***************************************************************************)
(* Properties of the file editor hook                                      *)
(***************************************************************************)
\* C28: hasUnsavedChanges is true exactly when the content of the editor
\* differs from the content last taken as saved.
C28_DirtyFlag ==
    hasUnsavedChanges <=> (content # lastSavedContentRef)

\* C29: when the auto-save timer fires while the content differs from the
\* content last saved, exactly one update_file is sent and it carries the
\* content of the editor.
C29_AutoSave ==
    (lastFire.ran /\ lastFire.content # lastFire.saved)
        => lastFire.sent = << lastFire.content >>

\* C30: once the 10-second timer of a save has fired, the listener of the
\* save is removed, the save has ended with its answer or with 'Timeout'
\* reported, and isSaving is true only for a save started later.
C30_SaveCompletes ==
    \A i \in DOMAIN saves :
        ~saves[i].timer =>
            /\ ~saves[i].listening
            /\ saves[i].outcome = "none" => saves[i].timeoutReported
            /\ isSaving => \E j \in DOMAIN saves : j > i /\ saves[j].timer

=============================================================================
